---- MODULE Spec2Model ----
(***************************************************************************)
(* QueueOfiStrategy (src/src/strategy/QueueOfi.cpp, QueueOfi.hpp): the     *)
(* L1 order-flow-imbalance signal engine and its one-position execution    *)
(* simulator, as a state machine with one action per public method.        *)
(*                                                                         *)
(* Units.  Prices are integers counted in eighths of a currency unit       *)
(* (5000.125 is 40001), so a tick of 0.25 is 2 and half a tick is 1.       *)
(* Realized PnL is counted in hundredths (37.50 is 3750), tick_value 12.5  *)
(* is 1250.  The smoothed OFI is an exact rational kept as an integer      *)
(* scaled by OfiScale = 5^MaxUpdates: each EWMA step divides by 5 and a    *)
(* run takes at most MaxUpdates steps (budget counts the steps left), so   *)
(* the division is always exact.                                           *)
(* Timestamps are small integers; max_hold_ns and min_flip_cooldown_ns are *)
(* configuration values in the same unit.                                  *)
(*                                                                         *)
(* The function-local statics of the source (ofi_ewm, last_raw_sig,        *)
(* same_dir_count, last_flip_ts) are process-wide: Construct, which        *)
(* models building a new strategy object as run_one_day does for every     *)
(* day, resets the members and leaves those four alone.                    *)
(*                                                                         *)
(* Specifications.  Spec: the execution simulator of one instance under    *)
(* every call sequence.  SpecSignal: the signal engine over several        *)
(* instances.  SpecDriver: a driver that passes on_quote's result on.      *)
(* SpecBacktest: main of backtest_ofi.cpp, event loop and end-of-day step. *)
(* SpecSizes: on_quote on sizes at the edges of QtyI, kept signed at a     *)
(* width of QtyBits bits.  SpecConfirm: two runs side by side that differ  *)
(* in trade timestamps and in trade_confirm_ns.  SpecMerge: merge_streams  *)
(* on every pair of short sorted lists.  SpecSkew: on_quote on one-tick     *)
(* quotes of small sizes, the division of micro() rounded as a double's    *)
(* is, at a significand of MantBits bits.                                  *)
(***************************************************************************)
EXTENDS Integers, Sequences, FiniteSets, TLC

\* ---------------------------------------------------------------- bounds
MaxTs == 2
MaxUpdates == 2     \* EWMA steps of a run of SpecSignal or SpecDriver, and the exponent of OfiScale
ExecUpdates == 1    \* EWMA steps of a run of Spec
QtyBits == 5        \* width of the signed size type QtyI in the model (32 in the source)
MaxLen == 2         \* longest list handed to merge_streams
MantBits == 20      \* width of the significand of double in the model (53 in the source)

\* ------------------------------------------------------- program constants
TickSize == 2
TickValue == 1250
AlphaNum == 1
AlphaDen == 5
SkewThNum == 1
SkewThDen == 10
Eps == 0

OfiScale == AlphaDen ^ MaxUpdates

Abs(x) == IF x < 0 THEN -x ELSE x

\* QtyI: the range of the signed size type, and a value reduced into it
QtyMin == -(2 ^ (QtyBits - 1))
QtyMax == 2 ^ (QtyBits - 1) - 1
WrapQty(x) == ((x - QtyMin) % (2 ^ QtyBits)) + QtyMin

\* a signed overflow is undefined: a build either wraps the sum into the
\* type or carries it on in a wider register
Builds == { "wrap", "wide" }
Max(a, b) == IF a > b THEN a ELSE b

\* std::optional<int>
NoSig == [has |-> FALSE, val |-> 0]
Some(v) == [has |-> TRUE, val |-> v]

\* struct Position, value-initialised
Flat == [side |-> 0, entry_px |-> 0, entry_ts |-> 0]

\* struct OfiParams: the fields the engine reads
OfiParams(touch, persist, confirm, hold) ==
  [theta_ofi |-> 1, theta_imb |-> [num |-> 1, den |-> 4],
   tick_size |-> TickSize, tick_value |-> TickValue, slip_ticks |-> 1,
   max_hold_ns |-> hold, min_bid_sz |-> 2, min_ask_sz |-> 2,
   persist_updates |-> persist, min_flip_cooldown_ns |-> 1,
   fill_at_touch_when_spread1 |-> touch, trade_confirm_ns |-> confirm,
   rth_only |-> TRUE]

Configs ==
  { OfiParams(FALSE, 2, 0, 1), OfiParams(TRUE, 1, 0, 1), OfiParams(TRUE, 2, 1, 1) }

\* the signal engine is also run at the lowest threshold, theta_ofi = 0
SignalConfigs == Configs \cup { [OfiParams(TRUE, 1, 0, 1) EXCEPT !.theta_ofi = 0] }

\* act_and_fill reads neither persist_updates nor trade_confirm_ns; the last
\* configuration has min_flip_cooldown_ns > max_hold_ns
ExecConfigs ==
  { OfiParams(FALSE, 2, 0, 1), OfiParams(TRUE, 1, 0, 1), OfiParams(FALSE, 1, 0, 2),
    [OfiParams(FALSE, 1, 0, 1) EXCEPT !.min_flip_cooldown_ns = 2] }

\* what the backtest driver is run with: the session filter on and off
BtConfigs ==
  { [OfiParams(touch, 1, 0, 1) EXCEPT !.rth_only = rth] :
      touch \in BOOLEAN, rth \in BOOLEAN }

\* ------------------------------------------------------------------ inputs
Quote(bp, ap, bs, as) == [bid_px |-> bp, ask_px |-> ap, bid_sz |-> bs, ask_sz |-> as]

Quotes ==
  { Quote(40000, 40002, 2, 2),    \* one tick wide, balanced
    Quote(40002, 40004, 6, 2),    \* both prices up, bid heavy
    Quote(39998, 40000, 2, 6),    \* both prices down, ask heavy
    Quote(40000, 40004, 6, 2),    \* two ticks wide
    Quote(40000, 40002, 6, 1) }   \* ask thinner than min_ask_sz

\* one quote per outcome of the touch-fill test
ExecQuotes ==
  { Quote(40000, 40002, 2, 2), Quote(40000, 40004, 6, 2), Quote(40000, 40002, 6, 1) }

\* sizes at the edges of QtyI, on a one-tick quote
SizeEdge == { QtyMin, -1, 0, 1, QtyMax }
SizeQuotes == { Quote(40000, 40002, bs, as) : bs \in SizeEdge, as \in SizeEdge }

\* enum Aggressor
Unknown == 0
Buy == 1
Sell == 2

Trades == { [ts |-> 0, side |-> Buy], [ts |-> 1, side |-> Buy],
            [ts |-> 1, side |-> Sell], [ts |-> 1, side |-> Unknown] }

Ts == 0 .. MaxTs

\* is_rth_utc: the session is [13:30, 20:00) UTC, in seconds of the day
SecPerDay == 86400
RthOpen == 48600
RthClose == 72000

\* timestamps of a backtest day, in seconds: the last ones of the session and
\* the first one after it
BtTs == { RthClose - MaxTs + k : k \in 0 .. MaxTs }
Mids == { 40000, 40008 }
Sigs == { NoSig, Some(-1), Some(0), Some(1) }

VARIABLES
  build,            \* what the build makes of a signed overflow, one of Builds
  P,                \* OfiParams of the live instance (QueueOfi.hpp:50)
  last_bid_px, last_ask_px, last_bid_sz, last_ask_sz, have_prev,   \* QueueOfi.hpp:53-55
  ofi_l1,           \* member (QueueOfi.hpp:58), scaled by OfiScale
  last_trade_ts, last_trade_dir,                                   \* QueueOfi.hpp:61-62
  position,         \* QueueOfi.hpp:65
  ofi_ewm,          \* static in update_ofi_l1 (QueueOfi.cpp:42), scaled by OfiScale
  last_raw_sig,     \* static in on_quote (QueueOfi.cpp:94)
  same_dir_count,   \* static in on_quote (QueueOfi.cpp:95)
  last_flip_ts,     \* static in act_and_fill (QueueOfi.cpp:122)
  sig_out,          \* what the last on_quote of the live instance returned
  budget,           \* EWMA steps the run may still take
  fresh,            \* no call has been made on the live instance since its construction
  run_dir,          \* raw direction of the live instance's last on_quote (0 before any)
  run_len,          \* how many of its latest on_quote calls in a row had that nonzero raw direction
  trade_log,        \* whether on_trade was called on the live instance, and the side of the latest call
  held,             \* side of the position the live instance holds or, when flat, held last (0: none yet)
  alt,              \* a second run of the same calls with other trade timestamps and another window
  mg,               \* merge_streams: its two argument lists and, once it has returned, its result
  bt,               \* the backtest driver: where it is, what the merged stream may still bring, day_q.quotes.back()
  obs               \* the last call: its arguments, the state it found, its locals and result

vars == << build, P, last_bid_px, last_ask_px, last_bid_sz, last_ask_sz, have_prev,
           ofi_l1, last_trade_ts, last_trade_dir, position, ofi_ewm,
           last_raw_sig, same_dir_count, last_flip_ts, sig_out, budget,
           fresh, run_dir, run_len, trade_log, held, alt, mg, bt, obs >>

NoTrade == [seen |-> FALSE, side |-> Unknown]

\* the second run before its first call, with trade_confirm_ns = confirm
AltStart(confirm) ==
  [clock |-> 0, last_trade_ts |-> 0, last_raw_sig |-> 0, same_dir_count |-> 0,
   trade_confirm_ns |-> confirm, out |-> NoSig]

\* merge_streams not called
NoMerge == [qs |-> << >>, ts |-> << >>, ev |-> << >>, done |-> FALSE]

\* the driver before its loop: no event read, day_q.quotes empty so far
BtStart ==
  [phase |-> "loop", q_min |-> 0, t_min |-> 0,
   back |-> [has |-> FALSE, ts |-> 0, q |-> Quote(0, 0, 0, 0)]]

NoObs ==
  [op |-> "new", ts |-> 0, mid |-> 0, sig |-> NoSig, pre |-> Flat, pre_flip |-> 0,
   touch |-> FALSE, branch |-> "-", ret |-> 0, exited |-> FALSE, exit_px |-> 0,
   opened |-> FALSE, open_over |-> 0, raw |-> 0, out |-> NoSig,
   q |-> Quote(0, 0, 0, 0), fed |-> FALSE, pre_raw |-> 0, pre_count |-> 0]

\* ------------------------------------------------------------ pure helpers

\* variant of spread_is_one_tick: any spread of at least one tick passes
spread_is_one_tick_wide(bid_px, ask_px, tick) == (ask_px - bid_px) - tick >= -Eps

spread_is_one_tick(bid_px, ask_px, tick) == Abs((ask_px - bid_px) - tick) <= Eps

\* 2 * mid(); every quote of the model has an even bid_px + ask_px
mid2(bid_px, ask_px) == bid_px + ask_px

\* last_bid_sz + last_ask_sz in QtyI
add_qty(a, b) ==
  IF a + b >= QtyMin /\ a + b <= QtyMax THEN a + b
  ELSE IF build = "wrap" THEN WrapQty(a + b)
  ELSE a + b

\* normalized imbalance as the fraction num/den; num is computed in double
imbalance_ticks(bid_sz, ask_sz) ==
  [num |-> bid_sz - ask_sz, den |-> Max(1, add_qty(bid_sz, ask_sz))]

\* the exponent of x >= 1 as a binary floating-point number
Log2Floor(x) == CHOOSE e \in 0 .. 29 : 2 ^ e <= x /\ x < 2 ^ (e + 1)

\* variant of round_div: the quotient is cut off
round_div_floor(n, d) == n \div d

\* n / d rounded to the nearest integer, ties to even (n >= 0, d > 0)
round_div(n, d) ==
  LET q == n \div d
      r == n % d
  IN  IF 2 * r > d \/ (2 * r = d /\ q % 2 = 1) THEN q + 1 ELSE q

\* micro() in eighths as the fraction num/den: the products and the sums are
\* exact in double, the division is rounded to MantBits significant bits
micro(bid_px, ask_px, bid_sz, ask_sz) ==
  LET Asz == Max(1, ask_sz)
      Bsz == Max(1, bid_sz)
      n == ask_px * Bsz + bid_px * Asz
      d == Asz + Bsz
      s == MantBits - 1 - Log2Floor(Max(1, n \div d))
  IN  [num |-> round_div(n * 2 ^ s, d), den |-> 2 ^ s]

\* (micro() - mid()) / tick_size as the fraction num/den, den >= 1; the
\* difference and the division by a tick that is a power of two are exact
micro_skew_ticks(bid_px, ask_px, bid_sz, ask_sz, tick) ==
  LET m == micro(bid_px, ask_px, bid_sz, ask_sz)
  IN  [num |-> 2 * m.num - (bid_px + ask_px) * m.den,
       den |-> 2 * tick * m.den]

\* variant of ofi_inst: the ask leg mirrors the bid leg on an unchanged price
ofi_inst_mirror(q, pbid_px, pask_px, pbid_sz, pask_sz) ==
  LET e_b == IF q.bid_px > pbid_px THEN q.bid_sz
             ELSE IF q.bid_px < pbid_px THEN -pbid_sz
             ELSE q.bid_sz - pbid_sz
      e_a == IF q.ask_px < pask_px THEN q.ask_sz
             ELSE IF q.ask_px > pask_px THEN -pask_sz
             ELSE q.ask_sz - pask_sz
  IN  e_b - e_a

\* instantaneous OFI of quote q against the stored quote
ofi_inst(q, pbid_px, pask_px, pbid_sz, pask_sz) ==
  LET e_b == IF q.bid_px > pbid_px THEN q.bid_sz
             ELSE IF q.bid_px < pbid_px THEN -pbid_sz
             ELSE q.bid_sz - pbid_sz
      e_a == IF q.ask_px < pask_px THEN q.ask_sz
             ELSE IF q.ask_px > pask_px THEN -pask_sz
             ELSE pask_sz - q.ask_sz
  IN  e_b - e_a

\* one EWMA step on the scaled value
ewma(prev, inst) == ((AlphaDen - AlphaNum) * prev + AlphaNum * inst * OfiScale) \div AlphaDen

\* variant of confirm_gate: a trade stamped inside the window does not confirm
confirm_gate_window(raw, trade_dir, trade_ts, p) ==
  p.trade_confirm_ns > 0 /\ (trade_dir # raw \/ trade_ts < p.trade_confirm_ns)

\* variant of confirm_gate: any trade seen confirms, whatever its side
confirm_gate_any_side(raw, trade_dir, trade_ts, p) ==
  p.trade_confirm_ns > 0 /\ trade_ts = 0

\* the trade confirmation: TRUE when the raw direction is suppressed
confirm_gate(raw, trade_dir, trade_ts, p) ==
  p.trade_confirm_ns > 0 /\ (trade_dir # raw \/ trade_ts = 0)

\* +1 / -1 / 0 from the stored quote, the smoothed OFI and the last trade
desired_position(bid_px, ask_px, bid_sz, ask_sz, ofi, trade_dir, trade_ts, p) ==
  IF ~spread_is_one_tick(bid_px, ask_px, p.tick_size) THEN 0
  ELSE IF bid_sz < p.min_bid_sz \/ ask_sz < p.min_ask_sz THEN 0
  ELSE
    LET skew == micro_skew_ticks(bid_px, ask_px, bid_sz, ask_sz, p.tick_size)
        imb  == imbalance_ticks(bid_sz, ask_sz)
        long_raw ==
          /\ ofi > p.theta_ofi * OfiScale
          /\ imb.num * p.theta_imb.den > p.theta_imb.num * imb.den
          /\ skew.num * SkewThDen > SkewThNum * skew.den
        short_raw ==
          /\ ofi < -(p.theta_ofi * OfiScale)
          /\ imb.num * p.theta_imb.den < -(p.theta_imb.num * imb.den)
          /\ skew.num * SkewThDen < -(SkewThNum * skew.den)
        raw == IF short_raw THEN -1 ELSE IF long_raw THEN 1 ELSE 0
    IN  IF raw = 0 THEN 0
        ELSE IF confirm_gate(raw, trade_dir, trade_ts, p) THEN 0
        ELSE raw

\* variant of next_count: a quote without a raw direction leaves the counter alone
next_count_keep(raw_sig, last_raw, count) ==
  IF raw_sig = 0 THEN count
  ELSE IF raw_sig = last_raw THEN count + 1
  ELSE 1

\* persistence: the repeat counter after a quote whose raw signal is raw_sig
next_count(raw_sig, last_raw, count) ==
  IF raw_sig = 0 THEN 0
  ELSE IF raw_sig = last_raw THEN count + 1
  ELSE 1

\* variant of emit: a quote without a raw direction returns a present 0
emit_zero(raw_sig, count, p) ==
  IF raw_sig = 0 THEN Some(0)
  ELSE IF count >= p.persist_updates THEN Some(raw_sig) ELSE NoSig

\* variant of emit: the counter has to exceed persist_updates
emit_gt(raw_sig, count, p) ==
  IF raw_sig # 0 /\ count > p.persist_updates THEN Some(raw_sig) ELSE NoSig

\* persistence: what on_quote returns once the counter is updated
emit(raw_sig, count, p) ==
  IF raw_sig # 0 /\ count >= p.persist_updates THEN Some(raw_sig) ELSE NoSig

\* variant of touch_fill: the sizes have to exceed their minimums
touch_fill_strict(bid_px, ask_px, bid_sz, ask_sz, p) ==
  /\ p.fill_at_touch_when_spread1
  /\ spread_is_one_tick(bid_px, ask_px, p.tick_size)
  /\ bid_sz > p.min_bid_sz /\ ask_sz > p.min_ask_sz

\* variant of touch_fill: the sizes are not looked at
touch_fill_any_size(bid_px, ask_px, bid_sz, ask_sz, p) ==
  /\ p.fill_at_touch_when_spread1
  /\ spread_is_one_tick(bid_px, ask_px, p.tick_size)

\* the touch-fill test act_and_fill makes on the stored quote
touch_fill(bid_px, ask_px, bid_sz, ask_sz, p) ==
  /\ p.fill_at_touch_when_spread1
  /\ spread_is_one_tick(bid_px, ask_px, p.tick_size)
  /\ bid_sz >= p.min_bid_sz
  /\ ask_sz >= p.min_ask_sz

\* slip = 0.5 * slip_ticks * tick_size, or 0 at the touch
fill_slip(touch, p) == IF touch THEN 0 ELSE (p.slip_ticks * p.tick_size) \div 2

\* variant of exit_price: the slippage is added as on entry
exit_price_plus(mid_px, side, slip) == mid_px + side * slip

exit_price(mid_px, side, slip) == mid_px - side * slip

entry_price(mid_px, side, slip) == mid_px + side * slip

\* variant of realized_pnl: the side of the position is left out
realized_pnl_long(exit, pos, p) ==
  ((exit - pos.entry_px) * p.tick_value) \div p.tick_size

\* pnl_ticks * tick_value; exact here because tick_size divides tick_value
realized_pnl(exit, pos, p) ==
  ((exit - pos.entry_px) * pos.side * p.tick_value) \div p.tick_size

\* variant of time_exit: the comparison is not strict
time_exit_ge(pos, ts, p) == pos.side # 0 /\ ts - pos.entry_ts >= p.max_hold_ns

time_exit(pos, ts, p) == pos.side # 0 /\ ts - pos.entry_ts > p.max_hold_ns

\* variant of cooldown_block: the comparison is turned round
cooldown_block_gt(pos, flip, ts, sig, p) ==
  /\ pos.side # 0 /\ sig.val # 0 /\ sig.val # pos.side
  /\ ts - flip > p.min_flip_cooldown_ns

\* variant of cooldown_block: the comparison is not strict
cooldown_block_le(pos, flip, ts, sig, p) ==
  /\ pos.side # 0 /\ sig.val # 0 /\ sig.val # pos.side
  /\ ts - flip <= p.min_flip_cooldown_ns

\* variant of cooldown_block: a zero signal is held back too
cooldown_block_zero(pos, flip, ts, sig, p) ==
  /\ pos.side # 0 /\ sig.val # pos.side
  /\ ts - flip < p.min_flip_cooldown_ns

cooldown_block(pos, flip, ts, sig, p) ==
  /\ pos.side # 0 /\ sig.val # 0 /\ sig.val # pos.side
  /\ ts - flip < p.min_flip_cooldown_ns

\* variant of needs_transition: the signal is not compared with the side held
needs_transition_always(pos, sig) == TRUE

\* the signal asks for a side other than the one held
needs_transition(pos, sig) == sig.val # pos.side

\* variant of close_leg: the exit leg resets the position when there is none
close_leg_inverted(pos, closing) == IF closing THEN pos ELSE Flat

\* variant of close_leg: the exit leg leaves the position as it is
close_leg_keep(pos, closing) == pos

\* the exit leg's position = {}
close_leg(pos, closing) == IF closing THEN Flat ELSE pos

\* the open leg
open_leg(pos, ts, mid_px, side, slip) ==
  [pos EXCEPT !.side = side, !.entry_px = entry_price(mid_px, side, slip), !.entry_ts = ts]

\* variant of flip_stamp: a transition leaves the flip timestamp alone
flip_stamp_keep(flip, ts) == flip

\* what the flip timestamp is after a transition at ts
flip_stamp(flip, ts) == ts

\* one call of act_and_fill on position pos with flip timestamp flip
act_and_fill(pos, flip, ts, mid_px, sig, touch, p) ==
  LET slip == fill_slip(touch, p)
      idle == [position |-> pos, last_flip_ts |-> flip, ret |-> 0, branch |-> "nosig",
               exited |-> FALSE, exit_px |-> 0, opened |-> FALSE, open_over |-> 0]
  IN  IF time_exit(pos, ts, p) THEN
        LET exit == exit_price(mid_px, pos.side, slip)
        IN  [idle EXCEPT !.position = Flat, !.last_flip_ts = flip_stamp(flip, ts),
                         !.ret = realized_pnl(exit, pos, p), !.branch = "forced",
                         !.exited = TRUE, !.exit_px = exit]
      ELSE IF ~sig.has THEN idle
      ELSE IF cooldown_block(pos, flip, ts, sig, p) THEN [idle EXCEPT !.branch = "blocked"]
      ELSE IF ~needs_transition(pos, sig) THEN [idle EXCEPT !.branch = "same"]
      ELSE
        LET closing == pos.side # 0
            exit == exit_price(mid_px, pos.side, slip)
            pos1 == close_leg(pos, closing)
            opening == sig.val # 0
        IN  [position |-> IF opening THEN open_leg(pos1, ts, mid_px, sig.val, slip) ELSE pos1,
             last_flip_ts |-> flip_stamp(flip, ts),
             ret |-> IF closing THEN realized_pnl(exit, pos, p) ELSE 0,
             branch |-> "transition",
             exited |-> closing, exit_px |-> IF closing THEN exit ELSE 0,
             opened |-> opening, open_over |-> IF opening THEN pos1.side ELSE 0]

\* ------------------------------------------------- the methods as functions
\* the members of the live instance and the four statics, as one record

EngineState ==
  [last_bid_px |-> last_bid_px, last_ask_px |-> last_ask_px,
   last_bid_sz |-> last_bid_sz, last_ask_sz |-> last_ask_sz, have_prev |-> have_prev,
   ofi_l1 |-> ofi_l1, last_trade_ts |-> last_trade_ts, last_trade_dir |-> last_trade_dir,
   position |-> position, ofi_ewm |-> ofi_ewm, last_raw_sig |-> last_raw_sig,
   same_dir_count |-> same_dir_count, last_flip_ts |-> last_flip_ts]

\* variant of store_quote: the reference moves only when a price moved
store_quote_if_moved(q, st) ==
  IF q.bid_px # st.last_bid_px \/ q.ask_px # st.last_ask_px
  THEN [st EXCEPT !.last_bid_px = q.bid_px, !.last_ask_px = q.ask_px,
                  !.last_bid_sz = q.bid_sz, !.last_ask_sz = q.ask_sz, !.have_prev = TRUE]
  ELSE [st EXCEPT !.have_prev = TRUE]

\* the L1 reference after on_quote(q)
store_quote(q, st) ==
  [st EXCEPT !.last_bid_px = q.bid_px, !.last_ask_px = q.ask_px,
             !.last_bid_sz = q.bid_sz, !.last_ask_sz = q.ask_sz, !.have_prev = TRUE]

\* variant of update_ofi_l1: the first quote is smoothed against the empty reference
update_ofi_l1_no_guard(q, st) ==
  LET e == ewma(st.ofi_ewm, ofi_inst(q, st.last_bid_px, st.last_ask_px,
                                     st.last_bid_sz, st.last_ask_sz))
  IN  [st EXCEPT !.ofi_ewm = e, !.ofi_l1 = e]

update_ofi_l1(q, st) ==
  IF ~st.have_prev THEN [st EXCEPT !.ofi_l1 = 0]
  ELSE LET e == ewma(st.ofi_ewm, ofi_inst(q, st.last_bid_px, st.last_ask_px,
                                          st.last_bid_sz, st.last_ask_sz))
       IN  [st EXCEPT !.ofi_ewm = e, !.ofi_l1 = e]

\* on_quote(q) on engine state st: the state it leaves, its raw signal, its result
on_quote(q, st, p) ==
  LET s2 == store_quote(q, update_ofi_l1(q, st))
      raw_sig == desired_position(s2.last_bid_px, s2.last_ask_px, s2.last_bid_sz,
                                  s2.last_ask_sz, s2.ofi_l1, s2.last_trade_dir,
                                  s2.last_trade_ts, p)
      count == next_count(raw_sig, s2.last_raw_sig, s2.same_dir_count)
  IN  [st |-> [s2 EXCEPT !.last_raw_sig = raw_sig, !.same_dir_count = count],
       raw |-> raw_sig, out |-> emit(raw_sig, count, p)]

\* Aggressor to +1 / -1 / 0
trade_dir(side) == IF side = Buy THEN 1 ELSE IF side = Sell THEN -1 ELSE 0

\* variant of on_trade: a trade also restarts the debounce
on_trade_restart(t, st) ==
  [st EXCEPT !.last_trade_ts = t.ts, !.last_trade_dir = trade_dir(t.side),
             !.last_raw_sig = 0, !.same_dir_count = 0]

\* on_trade(t) on engine state st
on_trade(t, st) ==
  [st EXCEPT !.last_trade_ts = t.ts, !.last_trade_dir = trade_dir(t.side)]

\* the engine state st becomes the state of the program
Install(st) ==
  /\ last_bid_px' = st.last_bid_px /\ last_ask_px' = st.last_ask_px
  /\ last_bid_sz' = st.last_bid_sz /\ last_ask_sz' = st.last_ask_sz
  /\ have_prev' = st.have_prev
  /\ ofi_l1' = st.ofi_l1
  /\ last_trade_ts' = st.last_trade_ts /\ last_trade_dir' = st.last_trade_dir
  /\ position' = st.position
  /\ ofi_ewm' = st.ofi_ewm
  /\ last_raw_sig' = st.last_raw_sig /\ same_dir_count' = st.same_dir_count
  /\ last_flip_ts' = st.last_flip_ts

\* the side held, or held last, once a call has left position pos behind
last_side(before, pos) == IF pos.side # 0 THEN pos.side ELSE before

\* ------------------------------------------------------------------ actions

StartMerge(steps, configs, builds, windows, lists) ==
  /\ build \in builds
  /\ mg \in lists
  /\ budget = steps
  /\ P \in configs
  /\ last_bid_px = 0 /\ last_ask_px = 0 /\ last_bid_sz = 0 /\ last_ask_sz = 0
  /\ have_prev = FALSE
  /\ ofi_l1 = 0
  /\ last_trade_ts = 0 /\ last_trade_dir = 0
  /\ position = Flat
  /\ ofi_ewm = 0 /\ last_raw_sig = 0 /\ same_dir_count = 0 /\ last_flip_ts = 0
  /\ sig_out = NoSig
  /\ fresh = TRUE
  /\ run_dir = 0 /\ run_len = 0
  /\ trade_log = NoTrade
  /\ held = 0
  /\ alt \in { AltStart(w) : w \in windows }
  /\ bt = BtStart
  /\ obs = NoObs

\* no call of merge_streams
StartAll(steps, configs, builds, windows) ==
  StartMerge(steps, configs, builds, windows, { NoMerge })

\* one run: there is no second run to compare with
StartBuild(steps, configs, builds) == StartAll(steps, configs, builds, {0})

\* no sum of sizes leaves QtyI in a run on Quotes or ExecQuotes, so there the
\* build's choice is never looked at
Start(steps, configs) == StartBuild(steps, configs, {"wrap"})

Init == Start(ExecUpdates, ExecConfigs)

\* QueueOfiStrategy strat(P): members take their initialisers, statics stay
Construct(p) ==
  /\ ~fresh
  /\ P' = p
  /\ last_bid_px' = 0 /\ last_ask_px' = 0 /\ last_bid_sz' = 0 /\ last_ask_sz' = 0
  /\ have_prev' = FALSE
  /\ ofi_l1' = 0
  /\ last_trade_ts' = 0 /\ last_trade_dir' = 0
  /\ position' = Flat
  /\ sig_out' = NoSig
  /\ fresh' = TRUE
  /\ run_dir' = 0 /\ run_len' = 0
  /\ trade_log' = NoTrade
  /\ held' = 0
  /\ obs' = NoObs
  /\ UNCHANGED << build, mg, alt, ofi_ewm, last_raw_sig, same_dir_count, last_flip_ts, budget, bt >>

OnQuote(q) ==
  /\ have_prev => budget > 0
  /\ \E r \in { on_quote(q, EngineState, P) } :
       /\ Install(r.st)
       /\ sig_out' = r.out
       /\ run_dir' = r.raw
       /\ run_len' = IF r.raw = 0 THEN 0
                     ELSE IF run_dir = r.raw THEN run_len + 1
                     ELSE 1
       /\ obs' = [NoObs EXCEPT !.op = "quote", !.raw = r.raw, !.out = r.out, !.q = q,
                               !.pre_raw = last_raw_sig, !.pre_count = same_dir_count]
  /\ budget' = IF have_prev THEN budget - 1 ELSE budget
  /\ fresh' = FALSE
  /\ UNCHANGED << build, mg, alt, P, trade_log, held, bt >>

OnTrade(t) ==
  /\ Install(on_trade(t, EngineState))
  /\ trade_log' = [seen |-> TRUE, side |-> t.side]
  /\ obs' = [NoObs EXCEPT !.op = "trade"]
  /\ fresh' = FALSE
  /\ UNCHANGED << build, mg, alt, P, sig_out, budget, run_dir, run_len, held, bt >>

ActAndFill(ts, mid_px, sig) ==
  \E touch \in { touch_fill(last_bid_px, last_ask_px, last_bid_sz, last_ask_sz, P) } :
  \E r \in { act_and_fill(position, last_flip_ts, ts, mid_px, sig, touch, P) } :
      /\ position' = r.position
      /\ last_flip_ts' = r.last_flip_ts
      /\ held' = last_side(held, r.position)
      /\ obs' = [NoObs EXCEPT !.op = "act", !.ts = ts, !.mid = mid_px, !.sig = sig,
                              !.pre = position, !.pre_flip = last_flip_ts,
                              !.touch = touch, !.branch = r.branch, !.ret = r.ret,
                              !.exited = r.exited, !.exit_px = r.exit_px,
                              !.opened = r.opened, !.open_over = r.open_over]
      /\ fresh' = FALSE
      /\ UNCHANGED << build, mg, alt, P, last_bid_px, last_ask_px, last_bid_sz, last_ask_sz, have_prev,
                      ofi_l1, last_trade_ts, last_trade_dir, ofi_ewm, last_raw_sig,
                      same_dir_count, sig_out, budget, run_dir, run_len, trade_log, bt >>

\* one instance's execution simulator under every call sequence.  on_trade is
\* left to SpecSignal and SpecDriver: act_and_fill reads nothing it writes.
Next ==
  \/ \E q \in ExecQuotes : OnQuote(q)
  \/ \E ts \in Ts, mid_px \in Mids, sig \in Sigs : ActAndFill(ts, mid_px, sig)

Spec == Init /\ [][Next]_vars

\* the signal engine alone: on_quote and on_trade read neither the position
\* nor the flip timestamp
InitSignal == Start(MaxUpdates, SignalConfigs)

NextSignal ==
  \/ \E p \in SignalConfigs : Construct(p)
  \/ \E q \in Quotes : OnQuote(q)
  \/ \E t \in Trades : OnTrade(t)

SpecSignal == InitSignal /\ [][NextSignal]_vars

\* a driver that hands act_and_fill what on_quote returned, or its own zero
InitDriver == Start(MaxUpdates, Configs)

NextDriver ==
  \/ \E q \in Quotes : OnQuote(q)
  \/ \E t \in Trades : OnTrade(t)
  \/ \E ts \in Ts : have_prev /\ ActAndFill(ts, mid2(last_bid_px, last_ask_px) \div 2, sig_out)
  \/ \E ts \in Ts : have_prev /\ ActAndFill(ts, mid2(last_bid_px, last_ask_px) \div 2, Some(0))

SpecDriver == InitDriver /\ [][NextDriver]_vars

\* two runs of the signal engine side by side.  Both get the same quotes and
\* trades of the same sides; the second run's trades carry other nonzero
\* timestamps and its trade_confirm_ns is another positive value.  Each run
\* is in time order.  alt holds what the second run's state differs in.
ConfirmWindows == { 1, 2 }
QuoteTs == 0 .. MaxTs + 2
ConfirmQuotes == { Quote(40000, 40002, 2, 2), Quote(40002, 40004, 6, 2), Quote(39998, 40000, 2, 6) }

InitConfirm ==
  StartAll(MaxUpdates, { OfiParams(TRUE, persist, 1, 1) : persist \in {1, 2} },
           {"wrap"}, ConfirmWindows)

\* on_quote(q) in both runs, q stamped ts
PairQuote(q, ts) ==
  /\ have_prev => budget > 0
  /\ ts >= obs.ts /\ ts >= alt.clock
  /\ \E r \in { on_quote(q, EngineState, P) } :
     \E r2 \in { on_quote(q, [EngineState EXCEPT !.last_trade_ts = alt.last_trade_ts,
                                                  !.last_raw_sig = alt.last_raw_sig,
                                                  !.same_dir_count = alt.same_dir_count],
                           [P EXCEPT !.trade_confirm_ns = alt.trade_confirm_ns]) } :
       /\ Install(r.st)
       /\ sig_out' = r.out
       /\ run_dir' = r.raw
       /\ run_len' = IF r.raw = 0 THEN 0
                     ELSE IF run_dir = r.raw THEN run_len + 1
                     ELSE 1
       /\ obs' = [NoObs EXCEPT !.op = "pair_quote", !.raw = r.raw, !.out = r.out,
                               !.q = q, !.ts = ts,
                               !.pre_raw = last_raw_sig, !.pre_count = same_dir_count]
       /\ alt' = [alt EXCEPT !.clock = ts, !.last_raw_sig = r2.st.last_raw_sig,
                             !.same_dir_count = r2.st.same_dir_count, !.out = r2.out]
  /\ budget' = IF have_prev THEN budget - 1 ELSE budget
  /\ fresh' = FALSE
  /\ UNCHANGED << build, mg, P, trade_log, held, bt >>

\* on_trade in both runs: the same side, stamped ts in the first run and ts2
\* in the second, both nonzero or both 0
PairTrade(side, ts, ts2) ==
  /\ ts >= obs.ts /\ ts2 >= alt.clock
  /\ (ts = 0) = (ts2 = 0)
  /\ Install(on_trade([ts |-> ts, side |-> side], EngineState))
  /\ alt' = [alt EXCEPT !.clock = ts2, !.last_trade_ts = ts2]
  /\ trade_log' = [seen |-> TRUE, side |-> side]
  /\ obs' = [NoObs EXCEPT !.op = "pair_trade", !.ts = ts]
  /\ fresh' = FALSE
  /\ UNCHANGED << build, mg, P, sig_out, budget, run_dir, run_len, held, bt >>

NextConfirm ==
  \/ \E q \in ConfirmQuotes, ts \in QuoteTs : PairQuote(q, ts)
  \/ \E side \in {Unknown, Buy, Sell}, ts \in Ts, ts2 \in Ts : PairTrade(side, ts, ts2)

SpecConfirm == InitConfirm /\ [][NextConfirm]_vars


InitSizes == StartBuild(ExecUpdates, { OfiParams(TRUE, 1, 0, 1) }, Builds)

NextSizes == \E q \in SizeQuotes : OnQuote(q)

SpecSizes == InitSizes /\ [][NextSizes]_vars

\* on_quote on one-tick quotes of every small size pair at two price levels,
\* with theta_imb at 0.25 and at 0.20
SkewSizes == 1 .. 4
SkewQuotes == { Quote(bp, bp + TickSize, bs, as) :
                  bp \in { 800, 40000 }, bs \in SkewSizes, as \in SkewSizes }
SkewConfigs == { OfiParams(TRUE, 1, 0, 1),
                 [OfiParams(TRUE, 1, 0, 1) EXCEPT !.theta_imb = [num |-> 1, den |-> 5]] }

InitSkew == Start(ExecUpdates, SkewConfigs)

NextSkew == \E q \in SkewQuotes : OnQuote(q)

SpecSkew == InitSkew /\ [][NextSkew]_vars

\* ------------------------------------------------------ the backtest driver
\* main of backtest_ofi.cpp: one action per event of the merged stream, then
\* the end-of-day step.  The merged stream of two sorted lists is any
\* sequence in which a quote is not older than the quote and the trade before
\* it and is newer than every trade before it, and a trade is not older than
\* any event before it (merge_streams takes the quote on a tie).

is_rth_utc(ts) ==
  LET sec_in_day == ts % SecPerDay
  IN  sec_in_day >= RthOpen /\ sec_in_day < RthClose

\* the three tests a quote event has to pass before the strategy sees it
driver_gates(q, ts, p) ==
  /\ ~(p.rth_only /\ ~is_rth_utc(ts))
  /\ spread_is_one_tick(q.bid_px, q.ask_px, p.tick_size)
  /\ ~(q.bid_sz < p.min_bid_sz \/ q.ask_sz < p.min_ask_sz)

InitBacktest == Start(MaxUpdates, BtConfigs)

BtQuote(q, ts) ==
  /\ bt.phase = "loop"
  /\ ts >= bt.q_min
  /\ bt' = [bt EXCEPT !.q_min = ts, !.t_min = Max(bt.t_min, ts),
                      !.back = [has |-> TRUE, ts |-> ts, q |-> q]]
  /\ IF driver_gates(q, ts, P)
     THEN /\ have_prev => budget > 0
          /\ \E mid_px \in { mid2(q.bid_px, q.ask_px) \div 2 } :
             \E r \in { on_quote(q, EngineState, P) } :
             \E touch \in { touch_fill(r.st.last_bid_px, r.st.last_ask_px,
                                       r.st.last_bid_sz, r.st.last_ask_sz, P) } :
             \E a \in { act_and_fill(r.st.position, r.st.last_flip_ts, ts, mid_px,
                                     r.out, touch, P) } :
               /\ Install([r.st EXCEPT !.position = a.position,
                                       !.last_flip_ts = a.last_flip_ts])
               /\ sig_out' = r.out
               /\ held' = last_side(held, a.position)
               /\ run_dir' = r.raw
               /\ run_len' = IF r.raw = 0 THEN 0
                             ELSE IF run_dir = r.raw THEN run_len + 1
                             ELSE 1
               /\ obs' = [NoObs EXCEPT !.op = "bt_quote", !.fed = TRUE, !.q = q,
                                       !.raw = r.raw, !.out = r.out,
                                       !.pre_raw = last_raw_sig,
                                       !.pre_count = same_dir_count,
                                       !.ts = ts, !.mid = mid_px, !.sig = r.out,
                                       !.pre = position, !.pre_flip = last_flip_ts,
                                       !.touch = touch, !.branch = a.branch,
                                       !.ret = a.ret, !.exited = a.exited,
                                       !.exit_px = a.exit_px, !.opened = a.opened,
                                       !.open_over = a.open_over]
          /\ budget' = IF have_prev THEN budget - 1 ELSE budget
          /\ fresh' = FALSE
     ELSE /\ obs' = [NoObs EXCEPT !.op = "bt_quote", !.q = q, !.ts = ts,
                                  !.pre = position, !.pre_flip = last_flip_ts]
          /\ UNCHANGED << last_bid_px, last_ask_px, last_bid_sz, last_ask_sz, have_prev,
                          ofi_l1, last_trade_ts, last_trade_dir, position, ofi_ewm,
                          last_raw_sig, same_dir_count, last_flip_ts, sig_out, budget,
                          fresh, run_dir, run_len, held >>
  /\ UNCHANGED << build, mg, alt, P, trade_log >>

BtTrade(t) ==
  /\ bt.phase = "loop"
  /\ t.ts >= bt.t_min
  /\ bt' = [bt EXCEPT !.t_min = t.ts, !.q_min = Max(bt.q_min, t.ts + 1)]
  /\ Install(on_trade(t, EngineState))
  /\ trade_log' = [seen |-> TRUE, side |-> t.side]
  /\ obs' = [NoObs EXCEPT !.op = "bt_trade", !.ts = t.ts]
  /\ fresh' = FALSE
  /\ UNCHANGED << build, mg, alt, P, sig_out, budget, run_dir, run_len, held >>

\* the end-of-day step
BtEnd ==
  /\ bt.phase = "loop"
  /\ bt' = [bt EXCEPT !.phase = "done"]
  /\ IF position.side # 0 /\ bt.back.has /\ (~P.rth_only \/ is_rth_utc(bt.back.ts))
     THEN \E mid_px \in { mid2(bt.back.q.bid_px, bt.back.q.ask_px) \div 2 } :
          \E touch \in { touch_fill(last_bid_px, last_ask_px, last_bid_sz, last_ask_sz, P) } :
          \E a \in { act_and_fill(position, last_flip_ts, bt.back.ts, mid_px,
                                  Some(0), touch, P) } :
            /\ position' = a.position
            /\ last_flip_ts' = a.last_flip_ts
            /\ held' = last_side(held, a.position)
            /\ obs' = [NoObs EXCEPT !.op = "bt_end", !.fed = TRUE,
                                    !.ts = bt.back.ts, !.mid = mid_px, !.sig = Some(0),
                                    !.pre = position, !.pre_flip = last_flip_ts,
                                    !.touch = touch, !.branch = a.branch,
                                    !.ret = a.ret, !.exited = a.exited,
                                    !.exit_px = a.exit_px, !.opened = a.opened,
                                    !.open_over = a.open_over]
            /\ fresh' = FALSE
     ELSE /\ obs' = [NoObs EXCEPT !.op = "bt_end", !.pre = position,
                                  !.pre_flip = last_flip_ts]
          /\ UNCHANGED << position, last_flip_ts, fresh, held >>
  /\ UNCHANGED << build, mg, alt, P, last_bid_px, last_ask_px, last_bid_sz, last_ask_sz, have_prev,
                  ofi_l1, last_trade_ts, last_trade_dir, ofi_ewm, last_raw_sig,
                  same_dir_count, sig_out, budget, run_dir, run_len, trade_log >>

NextBacktest ==
  \/ \E q \in Quotes, ts \in BtTs : BtQuote(q, ts)
  \/ \E side \in {Unknown, Buy, Sell}, ts \in BtTs : BtTrade([ts |-> ts, side |-> side])
  \/ BtEnd

SpecBacktest == InitBacktest /\ [][NextBacktest]_vars

\* ------------------------------------------------------------ merge_streams
\* merge_streams(qs, ts) of backtest_ofi.cpp and smoke.cpp on every pair of
\* time-sorted lists of at most MaxLen items stamped in Ts.  An item's tag
\* stands for the fields of a quote or trade other than its timestamp.

Item(ts, tag) == [ts |-> ts, tag |-> tag]
NoItem == Item(0, 0)

\* Event of Types.hpp:23-28
QuoteEvent(q) == [type |-> "Quote", ts |-> q.ts, q |-> q, t |-> NoItem]
TradeEvent(t) == [type |-> "Trade", ts |-> t.ts, q |-> NoItem, t |-> t]

\* the time-sorted lists, the k-th item tagged k
SortedStamps(n) ==
  { g \in [1 .. n -> Ts] : \A a \in 1 .. n, b \in 1 .. n : a <= b => g[a] <= g[b] }

SortedLists ==
  UNION { { [k \in 1 .. n |-> Item(g[k], k)] : g \in SortedStamps(n) } : n \in 0 .. MaxLen }

MergeInputs == { [qs |-> qs, ts |-> ts, ev |-> << >>, done |-> FALSE] :
                   qs \in SortedLists, ts \in SortedLists }

\* variant of take_q: on equal timestamps the trade goes first
take_q_strict(qs, ts, i, j) ==
  j = Len(ts) + 1 \/ (i < Len(qs) + 1 /\ qs[i].ts < ts[j].ts)

\* the loop's choice with i quotes and j trades still to merge from (1-based)
take_q(qs, ts, i, j) ==
  j = Len(ts) + 1 \/ (i < Len(qs) + 1 /\ qs[i].ts <= ts[j].ts)

RECURSIVE merge_loop(_, _, _, _, _)
merge_loop(qs, ts, i, j, ev) ==
  IF ~(i < Len(qs) + 1 \/ j < Len(ts) + 1) THEN ev
  ELSE IF take_q(qs, ts, i, j)
       THEN merge_loop(qs, ts, i + 1, j, Append(ev, QuoteEvent(qs[i])))
       ELSE merge_loop(qs, ts, i, j + 1, Append(ev, TradeEvent(ts[j])))

merge_streams(qs, ts) == merge_loop(qs, ts, 1, 1, << >>)

InitMerge == StartMerge(ExecUpdates, { OfiParams(TRUE, 1, 0, 1) }, {"wrap"}, {0}, MergeInputs)

MergeStreams ==
  /\ ~mg.done
  /\ mg' = [mg EXCEPT !.ev = merge_streams(mg.qs, mg.ts), !.done = TRUE]
  /\ UNCHANGED << build, P, last_bid_px, last_ask_px, last_bid_sz, last_ask_sz, have_prev,
                  ofi_l1, last_trade_ts, last_trade_dir, position, ofi_ewm,
                  last_raw_sig, same_dir_count, last_flip_ts, sig_out, budget,
                  fresh, run_dir, run_len, trade_log, held, alt, bt, obs >>

NextMerge == MergeStreams

SpecMerge == InitMerge /\ [][NextMerge]_vars

\* ------------------------------------------------------------------ claims
\* Every formula below reads obs, the record of the last call, against the
\* state that call left behind.

Acted == obs.op = "act"

\* the call found a position open and left a different one (or none)
Closed == Acted /\ obs.pre.side # 0 /\ position # obs.pre

\* the call left an open position it did not find
Opened == Acted /\ position.side # 0 /\ position # obs.pre

HoldExceeded == obs.pre.side # 0 /\ obs.ts - obs.pre.entry_ts > P.max_hold_ns

\* the touch-fill conditions on the quote the engine holds
TouchNow ==
  /\ P.fill_at_touch_when_spread1
  /\ last_ask_px - last_bid_px = P.tick_size
  /\ last_bid_sz >= P.min_bid_sz
  /\ last_ask_sz >= P.min_ask_sz

\* twice the default slippage 0.5 * slip_ticks * tick_size
TwiceSlip == P.slip_ticks * P.tick_size

\* C1: a call made while a position is open and ts - entry_ts > max_hold_ns
\* leaves the position flat whatever the signal, opens nothing and sets the
\* flip timestamp to ts; at ts - entry_ts = max_hold_ns nothing is forced: a
\* call with no signal or the position's own side changes nothing.
C1_ForcedTimeExit ==
  Acted =>
    /\ HoldExceeded =>
         /\ position.side = 0
         /\ ~obs.opened
         /\ last_flip_ts = obs.ts
    /\ ( /\ obs.pre.side # 0
         /\ obs.ts - obs.pre.entry_ts = P.max_hold_ns
         /\ (~obs.sig.has \/ obs.sig.val = obs.pre.side) ) =>
         /\ position = obs.pre
         /\ last_flip_ts = obs.pre_flip
         /\ obs.ret = 0

C1_Witness ==
  /\ Acted /\ HoldExceeded
  /\ obs.sig = Some(-obs.pre.side)
  /\ position.side = 0
  /\ last_flip_ts = obs.ts

\* C2: with a position open, no forced exit due, and an opposite nonzero
\* signal at ts - last_flip_ts < min_flip_cooldown_ns, the call returns 0 and
\* leaves side, entry_px, entry_ts and the flip timestamp as they were.
C2_CooldownBlock ==
  ( /\ Acted
    /\ obs.pre.side # 0
    /\ ~HoldExceeded
    /\ obs.sig.has /\ obs.sig.val # 0 /\ obs.sig.val = -obs.pre.side
    /\ obs.ts - obs.pre_flip < P.min_flip_cooldown_ns ) =>
    /\ obs.ret = 0
    /\ position = obs.pre
    /\ last_flip_ts = obs.pre_flip

C2_Witness ==
  /\ Acted
  /\ obs.pre.side = 1
  /\ ~HoldExceeded
  /\ obs.sig = Some(-1)
  /\ obs.ts - obs.pre_flip < P.min_flip_cooldown_ns
  /\ position = obs.pre

\* C3: with a position of side s open, signal -s, ts - last_flip_ts >=
\* min_flip_cooldown_ns and ts - entry_ts <= max_hold_ns, the one call closes
\* the old position and returns its realized PnL, opens side -s with
\* entry_ts = ts, and sets the flip timestamp to ts.
C3_FlipExecution ==
  ( /\ Acted
    /\ obs.pre.side # 0
    /\ obs.sig = Some(-obs.pre.side)
    /\ obs.ts - obs.pre_flip >= P.min_flip_cooldown_ns
    /\ obs.ts - obs.pre.entry_ts <= P.max_hold_ns ) =>
    /\ obs.exited
    /\ obs.ret * P.tick_size = (obs.exit_px - obs.pre.entry_px) * obs.pre.side * P.tick_value
    /\ position.side = -obs.pre.side
    /\ position.entry_ts = obs.ts
    /\ last_flip_ts = obs.ts

C3_Witness ==
  /\ Acted
  /\ obs.pre.side = -1
  /\ obs.sig = Some(1)
  /\ obs.ts - obs.pre_flip >= P.min_flip_cooldown_ns
  /\ obs.ts - obs.pre.entry_ts <= P.max_hold_ns
  /\ position.side = 1
  /\ obs.ret # 0

\* C4: with trade confirmation off and persist_updates >= 1, an on_quote whose
\* raw direction d is nonzero returns no signal while fewer than
\* persist_updates calls in a row have had raw direction d, and returns d on
\* the persist_updates-th such call and on every one after it.
C4_Persistence ==
  ( /\ obs.op = "quote"
    /\ obs.raw # 0
    /\ P.trade_confirm_ns = 0
    /\ P.persist_updates >= 1 ) =>
    /\ run_len < P.persist_updates => obs.out = NoSig
    /\ run_len >= P.persist_updates => obs.out = Some(obs.raw)

C4_Witness ==
  /\ obs.op = "quote"
  /\ obs.raw # 0
  /\ P.trade_confirm_ns = 0
  /\ P.persist_updates = 2
  /\ run_len = P.persist_updates
  /\ obs.out = Some(obs.raw)

\* C5: whenever a call closes a position (forced exit, flip or zero signal)
\* what it returns is ((exit - entry_px) / tick_size) * side * tick_value for
\* the position closed; a long entered at 5000.125 and exited at 5000.875 with
\* tick 0.25 and tick value 12.5 returns 37.50.
C5_RealizedPnl ==
  Closed =>
    /\ obs.ret * P.tick_size = (obs.exit_px - obs.pre.entry_px) * obs.pre.side * P.tick_value
    /\ ( /\ P.tick_size = 2 /\ P.tick_value = 1250
         /\ obs.pre.side = 1 /\ obs.pre.entry_px = 40001 /\ obs.exit_px = 40007 ) =>
         obs.ret = 3750

C5_Witness ==
  /\ Closed
  /\ obs.pre.side = 1 /\ obs.pre.entry_px = 40001 /\ obs.exit_px = 40007
  /\ obs.ret = 3750

\* C6: when the touch-fill override does not apply, an entry of side d fills
\* at mid + d*s and an exit of a position of side d at mid - d*s, with
\* s = 0.5 * slip_ticks * tick_size; a long opened at mid 5000.00 is entered
\* at 5000.125, and closed at mid 5001.00 it exits at 5000.875.
C6_DefaultSlippage ==
  ~TouchNow =>
    /\ Opened => 2 * position.entry_px = 2 * obs.mid + position.side * TwiceSlip
    /\ Closed => 2 * obs.exit_px = 2 * obs.mid - obs.pre.side * TwiceSlip
    /\ (Opened /\ position.side = 1 /\ obs.mid = 40000 /\ TwiceSlip = 2) =>
         position.entry_px = 40001
    /\ (Closed /\ obs.pre.side = 1 /\ obs.mid = 40008 /\ TwiceSlip = 2) =>
         obs.exit_px = 40007

C6_Witness ==
  /\ ~TouchNow
  /\ Closed
  /\ obs.pre.side = 1 /\ obs.pre.entry_px = 40001
  /\ obs.mid = 40008 /\ obs.exit_px = 40007

\* C7: when touch-fill is enabled and the quote the engine holds is one tick
\* wide with both sizes at or above their minimums, every entry and every
\* exit, a forced time exit included, fills at the mid passed to the call; in
\* every other case the fill is the mid moved against the position by the
\* default slippage.
C7_TouchFill ==
  /\ Opened => 2 * position.entry_px =
                 2 * obs.mid + (IF TouchNow THEN 0 ELSE position.side * TwiceSlip)
  /\ Closed => 2 * obs.exit_px =
                 2 * obs.mid - (IF TouchNow THEN 0 ELSE obs.pre.side * TwiceSlip)

C7_Witness ==
  /\ TouchNow
  /\ Closed /\ HoldExceeded
  /\ obs.pre.entry_px # obs.mid
  /\ obs.exit_px = obs.mid

\* C8: a call with a present signal 0 leaves the position flat from every
\* state, inside the flip cooldown too, and when a position was open it
\* returns that position's realized PnL at the exit price every other exit
\* gets (mid at the touch, mid moved by the default slippage otherwise).
C8_ForceFlatten ==
  (Acted /\ obs.sig = Some(0)) =>
    /\ position.side = 0
    /\ obs.pre.side # 0 =>
         /\ 2 * obs.exit_px =
              2 * obs.mid - (IF TouchNow THEN 0 ELSE obs.pre.side * TwiceSlip)
         /\ obs.ret * P.tick_size =
              (obs.exit_px - obs.pre.entry_px) * obs.pre.side * P.tick_value

C8_Witness ==
  /\ Acted /\ obs.sig = Some(0)
  /\ obs.pre.side # 0
  /\ ~HoldExceeded
  /\ obs.ts - obs.pre_flip < P.min_flip_cooldown_ns
  /\ position.side = 0
  /\ obs.ret # 0

\* C9: an instance starts with its whole engine state empty: before the first
\* call on a newly constructed instance the smoothed OFI, the last raw
\* direction, the repeat counter, the last flip timestamp and the position
\* are all at their initial values.
C9_InstanceIsolation ==
  fresh =>
    /\ ofi_ewm = 0 /\ ofi_l1 = 0
    /\ last_raw_sig = 0 /\ same_dir_count = 0
    /\ last_flip_ts = 0
    /\ position = Flat

\* C10: under a driver that passes act_and_fill what on_quote returned or its
\* own zero, position.side is always -1, 0 or +1, and a position is opened
\* only at a point of the call where none is open.
C10_PositionDomain ==
  /\ position.side \in {-1, 0, 1}
  /\ (Acted /\ obs.opened) => obs.open_over = 0

C10_Witness ==
  /\ Acted /\ obs.opened
  /\ obs.pre.side # 0
  /\ position.side = -obs.pre.side
  /\ obs.sig = sig_out

\* C11: with trade_confirm_ns > 0, on_quote returns a direction d only when
\* on_trade has been called on the instance and its latest call carried the
\* aggressor side of d (Buy for +1, Sell for -1); with no trade seen, or the
\* opposite side or Unknown seen last, it returns no signal, and an instance
\* that has seen no trade holds no position.
C11_TradeConfirmation ==
  P.trade_confirm_ns > 0 =>
    /\ (obs.op = "quote" /\ obs.out.has) =>
         /\ trade_log.seen
         /\ obs.out.val \in {-1, 1}
         /\ obs.out.val = 1 => trade_log.side = Buy
         /\ obs.out.val = -1 => trade_log.side = Sell
    /\ ~trade_log.seen => position.side = 0

C11_Witness ==
  /\ P.trade_confirm_ns > 0
  /\ obs.op = "quote"
  /\ obs.out = Some(1)
  /\ trade_log = [seen |-> TRUE, side |-> Buy]

\* C12: when no forced exit is due and the call gets no signal or a signal
\* equal to the side held (0 while flat included), it returns 0 and leaves
\* side, entry_px, entry_ts and the flip timestamp as they were.
C12_NoOp ==
  ( /\ Acted
    /\ ~HoldExceeded
    /\ (~obs.sig.has \/ obs.sig.val = obs.pre.side) ) =>
    /\ obs.ret = 0
    /\ position = obs.pre
    /\ last_flip_ts = obs.pre_flip

C12_Witness ==
  /\ Acted
  /\ ~HoldExceeded
  /\ obs.pre.side = 1
  /\ obs.sig = Some(1)
  /\ obs.ts > obs.pre_flip
  /\ obs.mid # obs.pre.entry_px
  /\ position = obs.pre
  /\ last_flip_ts = obs.pre_flip

\* C13: a call returns a nonzero amount only when it closes a position: a
\* call that finds the position flat returns 0, opening from flat included.
C13_PnlOnlyOnClose ==
  Acted =>
    /\ obs.ret # 0 => Closed
    /\ obs.pre.side = 0 => obs.ret = 0

C13_Witness ==
  /\ Acted
  /\ obs.pre.side = 0
  /\ Opened
  /\ obs.ret = 0

\* C14: for every quote event of the merged stream the driver calls on_quote
\* on that quote and then act_and_fill once with the quote's timestamp and
\* mid and the signal on_quote returned, and after the stream it calls
\* act_and_fill once more with signal 0; no quote event is skipped.
C14_DriverProtocol ==
  /\ obs.op = "bt_quote" =>
       /\ obs.fed
       /\ obs.q = [bid_px |-> last_bid_px, ask_px |-> last_ask_px,
                   bid_sz |-> last_bid_sz, ask_sz |-> last_ask_sz]
       /\ obs.ts = bt.back.ts
       /\ 2 * obs.mid = obs.q.bid_px + obs.q.ask_px
       /\ obs.sig = obs.out
  /\ obs.op = "bt_end" => (obs.fed /\ obs.sig = Some(0))

\* the quote the engine holds
Stored == Quote(last_bid_px, last_ask_px, last_bid_sz, last_ask_sz)

\* C15: a call of on_trade leaves the position, the flip timestamp, the
\* stored quote and have_prev, the smoothed OFI and the debounce direction
\* and counter as they were: a trade opens and closes nothing.
C15_OnTradeFrame ==
  [][ obs'.op = "trade" =>
        /\ position' = position
        /\ last_flip_ts' = last_flip_ts
        /\ Stored' = Stored /\ have_prev' = have_prev
        /\ ofi_l1' = ofi_l1 /\ ofi_ewm' = ofi_ewm
        /\ last_raw_sig' = last_raw_sig /\ same_dir_count' = same_dir_count ]_vars

C15_Witness ==
  /\ obs.op = "trade"
  /\ position.side # 0
  /\ same_dir_count > 0
  /\ ofi_l1 # 0
  /\ last_trade_dir = -position.side

\* C16: every on_quote(q), whether or not it returns a signal, leaves the
\* stored prices and sizes equal to q's and have_prev true; when a quote was
\* stored before, the smoothed OFI has taken one EWMA step on the
\* instantaneous OFI of q against that quote; and the debounce direction is
\* q's raw direction, the counter 0 for raw 0, one more for a repeat, else 1.
C16_QuoteAdvances ==
  [][ obs'.op = "quote" =>
        /\ Stored' = obs'.q
        /\ have_prev'
        /\ have_prev =>
             /\ AlphaDen * ofi_ewm' =
                  (AlphaDen - AlphaNum) * ofi_ewm
                  + AlphaNum * OfiScale * ofi_inst(obs'.q, last_bid_px, last_ask_px,
                                                   last_bid_sz, last_ask_sz)
             /\ ofi_l1' = ofi_ewm'
        /\ last_raw_sig' = obs'.raw
        /\ same_dir_count' = IF obs'.raw = 0 THEN 0
                             ELSE IF obs'.raw = last_raw_sig THEN same_dir_count + 1
                             ELSE 1 ]_vars

C16_Witness ==
  /\ obs.op = "quote"
  /\ ~obs.out.has
  /\ obs.raw # 0 /\ last_raw_sig = obs.raw /\ same_dir_count = 1
  /\ Stored = obs.q
  /\ ofi_l1 # 0

\* C17: the first on_quote of an instance leaves ofi() at 0 and returns no
\* signal, for every theta_ofi >= 0 (0 included) and whatever the quote.
C17_FirstQuoteNeutral ==
  [][ (obs'.op = "quote" /\ ~have_prev /\ P.theta_ofi >= 0) =>
        /\ ofi_l1' = 0
        /\ obs'.out = NoSig ]_vars

C17_Witness ==
  /\ obs.op = "quote"
  /\ P.theta_ofi = 0 /\ P.persist_updates = 1 /\ P.trade_confirm_ns = 0
  /\ obs.q = Quote(40002, 40004, 6, 2)
  /\ ofi_l1 = 0 /\ ofi_ewm # 0
  /\ obs.out = NoSig

\* C18: an on_quote whose quote equals the stored one in both prices and both
\* sizes leaves ofi() at exactly 0.80 times the value it had before the call.
C18_IdenticalQuoteDecay ==
  [][ (obs'.op = "quote" /\ have_prev /\ obs'.q = Stored) =>
        AlphaDen * ofi_l1' = (AlphaDen - AlphaNum) * ofi_l1 ]_vars

\* C19: for every quote the engine holds, whatever its sizes in QtyI, the
\* normalized imbalance (bid_sz - ask_sz) / max(1, bid_sz + ask_sz) has a
\* denominator of at least 1 and lies in [-1, 1].
C19_ImbalanceRange ==
  have_prev =>
    LET imb == imbalance_ticks(last_bid_sz, last_ask_sz)
    IN  /\ imb.den >= 1
        /\ -imb.den <= imb.num
        /\ imb.num <= imb.den

C21_CooldownAfterClose ==
  [][ ( /\ obs'.op = "act" /\ obs'.opened
        /\ held # 0 /\ position'.side = -held
        /\ obs'.ts >= last_flip_ts )
      => obs'.ts - last_flip_ts >= P.min_flip_cooldown_ns ]_vars

\* the gates of one direction d on quote q, read off the quote and ofi()
GatesPass(q, d) ==
  LET imb == imbalance_ticks(q.bid_sz, q.ask_sz)
      skew == micro_skew_ticks(q.bid_px, q.ask_px, q.bid_sz, q.ask_sz, P.tick_size)
  IN  /\ q.ask_px - q.bid_px = P.tick_size
      /\ q.bid_sz >= P.min_bid_sz
      /\ q.ask_sz >= P.min_ask_sz
      /\ d * ofi_l1 > P.theta_ofi * OfiScale
      /\ d * imb.num * P.theta_imb.den > P.theta_imb.num * imb.den
      /\ d * skew.num * SkewThDen > SkewThNum * skew.den

C23_DebounceReset ==
  obs.op = "quote" =>
    /\ obs.raw = 0 => (last_raw_sig = 0 /\ same_dir_count = 0)
    /\ (obs.raw # 0 /\ obs.raw # obs.pre_raw) => (last_raw_sig = obs.raw /\ same_dir_count = 1)
    /\ obs.out.has => (obs.out.val = run_dir /\ run_len >= P.persist_updates)

\* a short raw direction right after a long one, persist_updates = 2: the
\* counter restarts at 1 and nothing is returned
C23_Witness ==
  /\ obs.op = "quote"
  /\ obs.pre_raw = 1 /\ obs.pre_count >= 1
  /\ obs.raw = -1 /\ same_dir_count = 1
  /\ P.persist_updates = 2 /\ obs.out = NoSig

\* the direction the structural and direction gates give on quote q with
\* smoothed OFI ofi, before any trade confirmation
GateDir(q, ofi) ==
  desired_position(q.bid_px, q.ask_px, q.bid_sz, q.ask_sz, ofi, 0, 0,
                   [P EXCEPT !.trade_confirm_ns = 0])

\* C24: with trade_confirm_ns > 0, when the gates have given the same nonzero
\* direction d on persist_updates quotes in a row (one or two of them) and
\* the latest trade seen at the last of them has side d, on_quote returns d
\* on that quote, whatever the latest trade was at the quote before.
C24_ConfirmFiltersEmission ==
  [][ \A d \in {-1, 1} :
        ( /\ obs'.op = "quote"
          /\ P.trade_confirm_ns > 0
          /\ P.persist_updates \in {1, 2}
          /\ GateDir(obs'.q, ofi_l1') = d
          /\ P.persist_updates = 2 => (have_prev /\ GateDir(Stored, ofi_l1) = d)
          /\ last_trade_dir' = d /\ last_trade_ts' # 0 )
        => obs'.out = Some(d) ]_vars

\* the bid and ask legs of the instantaneous OFI of quote new against quote prev
BidLeg(prev, new) ==
  CASE new.bid_px > prev.bid_px -> new.bid_sz
    [] new.bid_px < prev.bid_px -> -prev.bid_sz
    [] new.bid_px = prev.bid_px -> new.bid_sz - prev.bid_sz

AskLeg(prev, new) ==
  CASE new.ask_px < prev.ask_px -> new.ask_sz
    [] new.ask_px > prev.ask_px -> -prev.ask_sz
    [] new.ask_px = prev.ask_px -> prev.ask_sz - new.ask_sz

C26_EndOfRunFlat == bt.phase = "done" => position.side = 0

\* C27: in a backtest run a position opened at t0 is closed at the first
\* quote event of the merged stream with ts - t0 > max_hold_ns: no quote
\* event that finds a position held for longer leaves it open.
C27_BacktestHoldBound ==
  ( /\ obs.op = "bt_quote"
    /\ obs.pre.side # 0
    /\ obs.ts - obs.pre.entry_ts > P.max_hold_ns ) =>
    (obs.exited /\ position.side = 0)

\* the events of one type in the result, unwrapped
MergedQuotes == [k \in 1 .. Len(SelectSeq(mg.ev, LAMBDA e : e.type = "Quote")) |->
                   SelectSeq(mg.ev, LAMBDA e : e.type = "Quote")[k].q]
MergedTrades == [k \in 1 .. Len(SelectSeq(mg.ev, LAMBDA e : e.type = "Trade")) |->
                   SelectSeq(mg.ev, LAMBDA e : e.type = "Trade")[k].t]

\* C28: for sorted lists of quotes and trades the result of merge_streams
\* holds every quote and every trade exactly once, each list in its own
\* order, is sorted by timestamp, non-decreasing, and has the quote before
\* the trade wherever the two carry the same timestamp.
C28_MergeStreams ==
  mg.done =>
    /\ Len(mg.ev) = Len(mg.qs) + Len(mg.ts)
    /\ MergedQuotes = mg.qs
    /\ MergedTrades = mg.ts
    /\ \A a \in 1 .. Len(mg.ev) :
         mg.ev[a].ts = (IF mg.ev[a].type = "Quote" THEN mg.ev[a].q.ts ELSE mg.ev[a].t.ts)
    /\ \A a \in 1 .. Len(mg.ev), b \in 1 .. Len(mg.ev) :
         a < b =>
           /\ mg.ev[a].ts <= mg.ev[b].ts
           /\ (mg.ev[a].type = "Trade" /\ mg.ev[b].type = "Quote") => mg.ev[a].ts < mg.ev[b].ts

\* two full lists merged, a quote and a trade with the same timestamp among them
C28_Witness ==
  /\ mg.done
  /\ Len(mg.qs) = MaxLen /\ Len(mg.ts) = MaxLen
  /\ \E a \in 1 .. Len(mg.ev), b \in 1 .. Len(mg.ev) :
       /\ mg.ev[a].type = "Quote" /\ mg.ev[b].type = "Trade"
       /\ mg.ev[a].ts = mg.ev[b].ts

\* C29: on one instance the flip timestamp of an open position is its
\* entry_ts, so with min_flip_cooldown_ns > max_hold_ns no call closes a
\* position and opens the opposite one (no direct flip executes).
C29_FlipStampIsEntry ==
  /\ position.side # 0 => last_flip_ts = position.entry_ts
  /\ (Acted /\ P.min_flip_cooldown_ns > P.max_hold_ns) => ~(obs.exited /\ obs.opened)

\* min_flip_cooldown_ns > max_hold_ns: the signal opposite to a position
\* opened at an earlier timestamp is held back by the cooldown
C29_Witness ==
  /\ Acted
  /\ P.min_flip_cooldown_ns > P.max_hold_ns
  /\ obs.pre.side # 0 /\ obs.sig = Some(-obs.pre.side)
  /\ obs.ts > obs.pre.entry_ts
  /\ obs.branch = "blocked"
  /\ position = obs.pre /\ last_flip_ts = position.entry_ts

C31_TouchEntryAtMid ==
  ( /\ Acted /\ obs.sig = sig_out
    /\ P.fill_at_touch_when_spread1
    /\ obs.opened ) =>
    /\ TouchNow /\ obs.touch
    /\ position.entry_px = obs.mid

\* on_quote's direction opened a position at the mid although the default
\* slippage is not zero
C31_Witness ==
  /\ Acted /\ obs.sig = sig_out /\ sig_out.has
  /\ P.fill_at_touch_when_spread1 /\ TwiceSlip # 0
  /\ obs.opened /\ position.side # 0
  /\ position.entry_px = obs.mid

\* what desired_position reads off the stored quote
SkewNow == micro_skew_ticks(last_bid_px, last_ask_px, last_bid_sz, last_ask_sz, P.tick_size)
ImbNow == imbalance_ticks(last_bid_sz, last_ask_sz)
OneTickSized ==
  /\ obs.op = "quote"
  /\ last_ask_px - last_bid_px = P.tick_size
  /\ last_bid_sz >= 1 /\ last_ask_sz >= 1

C33_OfiSideSymmetry ==
  [][ ( /\ obs'.op = "quote" /\ have_prev
        /\ obs'.q.bid_px = last_bid_px /\ obs'.q.ask_px = last_ask_px ) =>
        /\ (obs'.q.ask_sz = last_ask_sz /\ obs'.q.bid_sz > last_bid_sz) =>
             AlphaDen * ofi_ewm' - (AlphaDen - AlphaNum) * ofi_ewm
               = AlphaNum * OfiScale * (obs'.q.bid_sz - last_bid_sz)
        /\ (obs'.q.bid_sz = last_bid_sz /\ obs'.q.ask_sz > last_ask_sz) =>
             AlphaDen * ofi_ewm' - (AlphaDen - AlphaNum) * ofi_ewm
               = -(AlphaNum * OfiScale * (obs'.q.ask_sz - last_ask_sz)) ]_vars
====
